---- MODULE Spec2Model ----
(***************************************************************************)
(* The FSRS memory model (src/FSRS.py, duplicated in src/main.py) and the  *)
(* study-session loop of PhysicsFlashcardStudyApp (src/main.py).           *)
(*                                                                         *)
(* Python floats are modelled as decimal floating-point numbers            *)
(* [m |-> mantissa, e |-> exponent] of value m * 10^e, with an 8-digit     *)
(* mantissa (10^7 <= m < 10^8) or m = 0 for zero; floats are non-negative. *)
(* The IEEE-754 range effects are kept: a result above the largest double  *)
(* is inf, a result in the subnormal range is a whole multiple of 2^-1074  *)
(* (ties to even), and 1 + x keeps a whole multiple of 2^-52 of x (ties to *)
(* even).  These roundings are taken on exact whole-number arithmetic, and *)
(* where the decimal operands give an exact half the side is the one of    *)
(* the doubles nearest to them.  Difficulty is a fixed-point integer in    *)
(* units of 10^-6.                                                         *)
(* A datetime or timedelta is [d, s, us]: days, seconds, microseconds, as  *)
(* Python stores a timedelta; a datetime counts from the first start of    *)
(* the program.                                                            *)
(***************************************************************************)
EXTENDS Integers, Sequences, FiniteSets, TLC

\* ------------------------------------------------------------------------
\* Decimal floating point
\* ------------------------------------------------------------------------
MantMin == 10^7
MantMax == 10^8

F(m, e) == [m |-> m, e |-> e]
FZero == F(0, 0)
One == F(MantMin, -7)
Two == F(2 * MantMin, -7)
Half == F(5 * MantMin, -8)

\* float('inf'): it compares above every finite double.
Inf == F(MantMin, 400)
\* The largest finite double, 1.7976931e308.
MaxDouble == F(17976931, 301)
\* The smallest positive double, 2^-1074 = 4.9406565e-324: the spacing of the
\* subnormal doubles.
MinSubnormal == F(49406565, -331)
\* 10^8 and 10^7 times that spacing: below QuantLimit a result is rounded to a
\* whole count of 2^-1074, and below TinyLimit the 8 digits tell the count.
QuantLimit == F(49406565, -323)
TinyLimit == F(49406565, -324)
\* 2^-52 = 2.2204460e-16, the spacing of doubles in [1, 2).
Ulp1 == F(22204460, -23)

FIsZero(a) == a.m = 0

\* An operator that uses an argument or an intermediate result more than once
\* binds its value first, as the one element of a set: x \in {a}.

FLt(a, b) ==
    \E x \in {a}, y \in {b} :
        IF y.m = 0 THEN FALSE
        ELSE IF x.m = 0 THEN TRUE
        ELSE x.e < y.e \/ (x.e = y.e /\ x.m < y.m)

FLe(a, b) == \E x \in {a}, y \in {b} : x = y \/ FLt(x, y)

FMaxOf(a, b) == CHOOSE v \in {IF FLt(x, y) THEN y ELSE x : x \in {a}, y \in {b}} : TRUE
FMinOf(a, b) == CHOOSE v \in {IF FLt(y, x) THEN y ELSE x : x \in {a}, y \in {b}} : TRUE

\* n * 10^e with the mantissa brought to 8 digits.
RECURSIVE Norm(_, _)
Norm(n, e) ==
    CHOOSE v \in
        {IF x = 0 THEN FZero
         ELSE IF x < MantMin THEN Norm(x * 10, k - 1)
         ELSE IF x >= MantMax THEN Norm((x + 5) \div 10, k + 1)
         ELSE F(x, k) : x \in {n}, k \in {e}} : TRUE

FromInt(n) == Norm(n, 0)

Pow10(k) == 10^k

\* The 8-digit product and quotient of finite non-zero a, b, whatever the range.
RawMul(a, b) ==
    CHOOSE v \in
        {Norm((x.m \div 10^4) * (y.m \div 10^4) * 10
              + (((x.m \div 10^4) * (y.m % 10^4) + (x.m % 10^4) * (y.m \div 10^4)
                  + (((x.m % 10^4) * (y.m % 10^4)) \div 10^4) + 500) \div 1000),
              x.e + y.e + 7) : x \in {a}, y \in {b}} : TRUE

\* Long division, one decimal digit of the quotient per step.
RECURSIVE LongDiv(_, _, _, _)
LongDiv(r, b, k, acc) ==
    CHOOSE v \in
        {IF k = 0 THEN y
         ELSE LongDiv((x * 10) % b, b, k - 1, y * 10 + ((x * 10) \div b)) :
            x \in {r}, y \in {acc}} : TRUE

RawDiv(a, b) ==
    CHOOSE v \in
        {Norm(LongDiv(x.m % y.m, y.m, 8, x.m \div y.m), x.e - y.e - 8) :
            x \in {a}, y \in {b}} : TRUE

\* The remainder that long division leaves after k decimal digits.
RECURSIVE LongRem(_, _, _)
LongRem(r, b, k) == IF k = 0 THEN r ELSE LongRem((r * 10) % b, b, k - 1)

\* ------------------------------------------------------------------------
\* Exact whole numbers beyond 2^31: limbs of four decimal digits, lowest first
\* ------------------------------------------------------------------------
Base == 10^4

BigFromInt(n) == <<n % Base, (n \div Base) % Base, n \div (Base * Base)>>

Limb(p, i) == IF i <= Len(p) THEN p[i] ELSE 0

\* The sum of a[j] * b[i - j + 2] over the limbs j >= from of a: column i of
\* the product, columns counted from 0.
RECURSIVE ColumnSum(_, _, _, _)
ColumnSum(a, b, i, from) ==
    IF from > Len(a) THEN 0
    ELSE (IF i - from + 2 >= 1 THEN a[from] * Limb(b, i - from + 2) ELSE 0)
         + ColumnSum(a, b, i, from + 1)

RECURSIVE Carried(_, _, _, _)
Carried(a, b, i, carry) ==
    IF i > Len(a) + Len(b) - 1 THEN <<>>
    ELSE CHOOSE v \in
             {<<t % Base>> \o Carried(a, b, i + 1, t \div Base) :
                 t \in {ColumnSum(a, b, i, 1) + carry}} : TRUE

BigMul(a, b) == CHOOSE v \in {Carried(x, y, 0, 0) : x \in {a}, y \in {b}} : TRUE

RECURSIVE AddFrom(_, _, _, _)
AddFrom(a, b, i, carry) ==
    IF i > Len(a) /\ i > Len(b)
    THEN <<carry>>
    ELSE CHOOSE v \in
             {<<t % Base>> \o AddFrom(a, b, i + 1, t \div Base) :
                 t \in {Limb(a, i) + Limb(b, i) + carry}} : TRUE

BigAdd(a, b) == CHOOSE v \in {AddFrom(x, y, 1, 0) : x \in {a}, y \in {b}} : TRUE

\* -1, 0, 1 as a < b, a = b, a > b, compared from limb i down.
RECURSIVE CmpFrom(_, _, _)
CmpFrom(a, b, i) ==
    IF i = 0 THEN 0
    ELSE IF Limb(a, i) > Limb(b, i) THEN 1
    ELSE IF Limb(a, i) < Limb(b, i) THEN -1
    ELSE CmpFrom(a, b, i - 1)

BigCmp(a, b) ==
    CHOOSE v \in
        {CmpFrom(x, y, IF Len(x) > Len(y) THEN Len(x) ELSE Len(y)) :
            x \in {a}, y \in {b}} : TRUE

\* The decimal digit of weight 10^j of p.
Digit(p, j) == IF j >= 4 * Len(p) THEN 0 ELSE (p[(j \div 4) + 1] \div 10^(j % 4)) % 10

\* The number made of the digits of p from weight 10^j up.
RECURSIVE High(_, _)
High(p, j) == IF j >= 4 * Len(p) THEN 0 ELSE Digit(p, j) + 10 * High(p, j + 1)

\* The weight of the leading digit of p > 0, searched from weight 10^j down.
RECURSIVE TopFrom(_, _)
TopFrom(p, j) == IF j = 0 \/ Digit(p, j) # 0 THEN j ELSE TopFrom(p, j - 1)
Top(p) == TopFrom(p, 4 * Len(p) - 1)

Sign(n) == IF n > 0 THEN 1 ELSE IF n < 0 THEN -1 ELSE 0

\* The digits of p below weight 10^n against a half of 10^n: -1, 0, 1.
FracSign(p, n) ==
    IF n <= 0 THEN -1
    ELSE IF Digit(p, n - 1) > 5 THEN 1
    ELSE IF Digit(p, n - 1) < 5 THEN -1
    ELSE IF \E j \in 0..(n - 2) : Digit(p, j) # 0 THEN 1
    ELSE 0

\* Round to nearest: q is the whole part, frac compares the rest with a half,
\* and on an exact half dir says whether the double operands put the true
\* value above it (1), below it (-1) or on it (0: the even neighbour).
Nearest(q, frac, dir) ==
    IF frac > 0 \/ (frac = 0 /\ (dir > 0 \/ (dir = 0 /\ q % 2 = 1))) THEN q + 1 ELSE q

\* p / 10^n rounded to nearest, p a decimal value that is never a double's
\* exact half.
RoundShift(p, n) ==
    CHOOSE v \in {Nearest(High(x, n), FracSign(x, n), 0) : x \in {p}} : TRUE

\* ------------------------------------------------------------------------
\* Rounding of a quotient p / q to the 53 bits of a double
\* ------------------------------------------------------------------------
RECURSIVE BitLength(_)
BitLength(n) == IF n = 0 THEN 0 ELSE 1 + BitLength(n \div 2)

\* Binary long division until the quotient has 53 significant bits: s is the
\* number of doublings, r the remainder, odd the last bit of the quotient.
RECURSIVE Bits53Loop(_, _, _, _, _)
Bits53Loop(r, q, n, s, last) ==
    IF n >= 53 THEN [s |-> s, r |-> r, odd |-> last]
    ELSE Bits53Loop((2 * r) % q, q,
                    IF n = 0 /\ 2 * r < q THEN 0 ELSE n + 1,
                    s + 1, (2 * r) \div q)

Bits53(p, q) == Bits53Loop(p % q, q, BitLength(p \div q), 0, (p \div q) % 2)

\* Whether the 53-bit quotient is rounded up.
RoundsUp(b, q) == 2 * b.r > q \/ (2 * b.r = q /\ b.odd = 1)

\* The numerator and the powers of 2 and 5 left in the denominator of
\* m / 10^n in lowest terms.
RECURSIVE Lowest(_, _, _)
Lowest(m, a, b) ==
    IF a > 0 /\ m % 2 = 0 THEN Lowest(m \div 2, a - 1, b)
    ELSE IF b > 0 /\ m % 5 = 0 THEN Lowest(m \div 5, a, b - 1)
    ELSE [p |-> m, q |-> 2^a * 5^b]

\* The sign of double(y) - y for the decimal y = m * 10^e with e < 0, which a
\* product or quotient on an exact half needs; its denominator is small then.
DecSign(y) ==
    CHOOSE v \in
        {IF b.r = 0 THEN 0 ELSE IF RoundsUp(b, f.q) THEN 1 ELSE -1 :
            b \in {Bits53(f.p, f.q) : f \in {Lowest(y.m, -y.e, -y.e)}},
            f \in {Lowest(y.m, -y.e, -y.e)}} : TRUE

\* ------------------------------------------------------------------------
\* Subnormal doubles: whole counts of 2^-1074
\* ------------------------------------------------------------------------
\* 2^1074 = 2.0240225330731061835e323 and 2^-1074 = 4.9406564584124654e-324.
TwoTo1074 == <<1835, 3106, 3307, 225, 2024>>
TwoToMinus1074 == <<4654, 8412, 5645, 9406, 4>>

\* The count of 2^-1074 of a double a below QuantLimit, exact below TinyLimit.
Units(a) == RoundShift(BigMul(BigFromInt(a.m), TwoTo1074), -(a.e + 304))

\* The double n * 2^-1074 to 8 digits.
FromUnits(n) ==
    IF n = 0 THEN FZero
    ELSE CHOOSE v \in
             {Norm(RoundShift(p, Top(p) - 7), Top(p) - 7 - 340) :
                 p \in {BigMul(BigFromInt(n), TwoToMinus1074)}} : TRUE

\* u * 2^-1074 times the double y, in counts of 2^-1074.
TinyTimes(u, y) ==
    IF y.e >= 0 THEN u * y.m * Pow10(y.e)
    ELSE CHOOSE v \in
             {Nearest(High(p, -y.e), f, IF f = 0 THEN DecSign(y) ELSE 0) :
                 f \in {FracSign(p, -y.e) : p \in {BigMul(BigFromInt(u), BigFromInt(y.m))}},
                 p \in {BigMul(BigFromInt(u), BigFromInt(y.m))}} : TRUE

\* The product of two doubles above TinyLimit, in counts of 2^-1074.
NormalTimes(x, y) ==
    RoundShift(BigMul(BigMul(BigFromInt(x.m), BigFromInt(y.m)), TwoTo1074),
               -(x.e + y.e + 304))

\* u * 2^-1074 over the double y, in counts of 2^-1074 (u < 10^7 <= y.m).
TinyOver(u, y) ==
    IF y.e > 0 THEN 0
    ELSE CHOOSE v \in
             {Nearest(LongDiv(u, y.m, -y.e, 0), f, IF f = 0 THEN -DecSign(y) ELSE 0) :
                 f \in {Sign(2 * LongRem(u, y.m, -y.e) - y.m)}} : TRUE

\* Division of the digits of p by b, from weight 10^j down: k collects the
\* digits of the quotient of weight 10^n and more, half is its digit of
\* weight 10^(n-1), sticky tells whether anything is left below.
RECURSIVE ShortDiv(_, _, _, _, _, _, _, _)
ShortDiv(p, b, n, j, rem, k, half, sticky) ==
    IF j < 0 THEN [k |-> k, half |-> half, sticky |-> sticky \/ rem # 0]
    ELSE CHOOSE v \in
             {ShortDiv(p, b, n, j - 1, t % b,
                       IF j >= n THEN 10 * k + (t \div b) ELSE k,
                       IF j = n - 1 THEN t \div b ELSE half,
                       sticky \/ (j < n - 1 /\ t \div b # 0)) :
                 t \in {10 * rem + Digit(p, j)}} : TRUE

\* The quotient of two doubles above TinyLimit, in counts of 2^-1074.
NormalOver(x, y) ==
    CHOOSE v \in
        {Nearest(d.k,
                 IF d.half > 5 \/ (d.half = 5 /\ d.sticky) THEN 1
                 ELSE IF d.half = 5 THEN 0 ELSE -1, 0) :
            d \in {ShortDiv(p, y.m, -(x.e - y.e + 304), 4 * Len(p) - 1, 0, 0, 0, FALSE) :
                      p \in {BigMul(BigFromInt(x.m), TwoTo1074)}}} : TRUE

\* a * b : inf above the largest double; below QuantLimit the exact product
\* rounded to a whole count of 2^-1074.
FMul(a, b) ==
    CHOOSE v \in
        {IF x.m = 0 \/ y.m = 0 THEN FZero
         ELSE IF x = Inf \/ y = Inf THEN Inf
         ELSE CHOOSE w \in
                  {IF FLt(MaxDouble, r) THEN Inf
                   ELSE IF ~FLt(r, QuantLimit) THEN r
                   ELSE IF FLt(x, TinyLimit) /\ FLt(y, TinyLimit) THEN FZero
                   ELSE IF FLt(x, TinyLimit) THEN FromUnits(TinyTimes(Units(x), y))
                   ELSE IF FLt(y, TinyLimit) THEN FromUnits(TinyTimes(Units(y), x))
                   ELSE FromUnits(NormalTimes(x, y)) : r \in {RawMul(x, y)}} : TRUE :
            x \in {a}, y \in {b}} : TRUE

\* a / b for b # 0.
FDiv(a, b) ==
    CHOOSE v \in
        {IF x.m = 0 THEN FZero
         ELSE IF x = Inf THEN Inf
         ELSE IF y = Inf THEN FZero
         ELSE IF FLt(x, TinyLimit) /\ FLt(y, TinyLimit)
         THEN RawDiv(FromInt(Units(x)), FromInt(Units(y)))
         ELSE CHOOSE w \in
                  {IF FLt(MaxDouble, r) THEN Inf
                   ELSE IF ~FLt(r, QuantLimit) THEN r
                   ELSE IF FLt(x, TinyLimit) THEN FromUnits(TinyOver(Units(x), y))
                   ELSE FromUnits(NormalOver(x, y)) : r \in {RawDiv(x, y)}} : TRUE :
            x \in {a}, y \in {b}} : TRUE

\* hi + lo for finite hi, lo > 0 with hi.e >= lo.e, before range handling.
RawAdd(hi, lo) ==
    IF hi.e - lo.e > 9 THEN hi
    ELSE Norm(hi.m + ((lo.m + (Pow10(hi.e - lo.e) \div 2)) \div Pow10(hi.e - lo.e)), hi.e)

\* a + b
FAdd(a, b) ==
    CHOOSE v \in
        {IF x.m = 0 THEN y
         ELSE IF y.m = 0 THEN x
         ELSE IF x = Inf \/ y = Inf THEN Inf
         ELSE CHOOSE w \in
                  {IF FLt(MaxDouble, r) THEN Inf
                   ELSE IF FLt(r, QuantLimit) THEN FromUnits(Units(x) + Units(y))
                   ELSE r :
                      r \in {IF x.e >= y.e THEN RawAdd(x, y) ELSE RawAdd(y, x)}} : TRUE :
            x \in {a}, y \in {b}} : TRUE

\* a - b for a >= b >= 0 with a.e - b.e <= 1 (used on values in [1, 2)).
FSub(a, b) ==
    CHOOSE v \in
        {IF y.m = 0 THEN x
         ELSE IF x.e = y.e THEN Norm(x.m - y.m, x.e)
         ELSE Norm(x.m * 10 - y.m, y.e) : x \in {a}, y \in {b}} : TRUE

\* The float nearest to a positive integer count n * 10^-6 (a difficulty).
DUnit == 10^6
FromFixed(n) == Norm(n, -6)

\* A call either returns a value or raises.
Returns(v) == [ok |-> TRUE, v |-> v, err |-> "none"]
Raises(err) == [ok |-> FALSE, v |-> FZero, err |-> err]

\* x ** -1 : 0.0 raises ZeroDivisionError, a result above the largest double
\* raises OverflowError, inf gives 0.0.
Recip(x) ==
    CHOOSE v \in
        {IF y.m = 0 THEN Raises("ZeroDivisionError")
         ELSE IF y = Inf THEN Returns(FZero)
         ELSE IF FLt(MaxDouble, RawDiv(One, y)) THEN Raises("OverflowError")
         ELSE Returns(FDiv(One, y)) : y \in {x}} : TRUE

\* ------------------------------------------------------------------------
\* math.log(x + 1) / math.log(2)
\* ------------------------------------------------------------------------
Ln2 == F(69314718, -8)

\* 2^52 = 4503599627370496
Two52 == <<496, 2737, 5996, 4503>>

\* x counted in 2^-52 and rounded to a whole count, a half going to the even
\* count, for 0 < x < 1e-7: the exact product x.m * 2^52 cut at 10^(-x.e).
OnePlusCount(x) == RoundShift(BigMul(BigFromInt(x.m), Two52), -x.e)

\* (x + 1) - 1 for x < 1 as the double addition leaves it: the sum keeps a whole
\* multiple of 2^-52 of x, a half going to the even multiple.  From 1e-7 on the
\* multiple is x itself to 8 digits.
OnePlusExcess(x) ==
    CHOOSE v \in
        {IF y.m = 0 THEN FZero
         ELSE IF FLt(y, F(MantMin, -14))
         THEN CHOOSE w \in
                  {IF n = 0 THEN FZero ELSE RawMul(FromInt(n), Ulp1) :
                      n \in {OnePlusCount(y)}} : TRUE
         ELSE y : y \in {x}} : TRUE

\* sum over odd k >= j of z^(k-j) / k, up to k = 15 (z2 = z * z).
RECURSIVE AtanhSeries(_, _)
AtanhSeries(j, z2) ==
    IF j > 15 THEN FZero
    ELSE FAdd(FDiv(One, FromInt(j)), FMul(z2, AtanhSeries(j + 2, z2)))

\* ln(1 + x) for 0 <= x <= 1, as 2 * atanh(x / (2 + x)).
Ln1p(x) ==
    CHOOSE v \in
        {FMul(Two, FMul(z, AtanhSeries(1, FMul(z, z)))) :
            z \in {FDiv(y, FAdd(Two, y)) : y \in {x}}} : TRUE

\* v = y * 2^k with 1 <= y < 2.
RECURSIVE Halvings(_, _)
Halvings(v, k) ==
    CHOOSE h \in
        {IF FLt(y, Two) THEN [y |-> y, k |-> k] ELSE Halvings(FMul(y, Half), k + 1) :
            y \in {v}} : TRUE

\* math.log(10) / math.log(2)
Log2Ten == F(33219281, -7)

\* math.log(x + 1) / math.log(2) for x >= 0 ; math.log(inf) is inf.  For
\* x >= 1 the sum x + 1 = y * 2^k * 10^n with 1 <= y < 2 gives
\* n * log2(10) + k + log2(y).
Log2OnePlus(x) ==
    CHOOSE v \in
        {IF s = Inf THEN Inf
         ELSE IF FLt(s, Two)
         THEN FDiv(Ln1p(OnePlusExcess(x)), Ln2)
         ELSE CHOOSE w \in
                  {FAdd(FMul(FromInt(s.e + 7), Log2Ten),
                        FAdd(FromInt(h.k), FDiv(Ln1p(FSub(h.y, One)), Ln2))) :
                      h \in {Halvings(F(s.m, -7), 0)}} : TRUE :
            s \in {FAdd(One, x)}} : TRUE

\* ------------------------------------------------------------------------
\* class FSRS
\* ------------------------------------------------------------------------
Grades == {"Again", "Hard", "Good", "Easy"}

w1 == One
w4 == 1 * DUnit
w11 == One
w12 == 1

\* (1 + (t / S) ** -1) ** -1 ; t / 0.0 raises ZeroDivisionError.
calculate_retrievability(t, S) ==
    CHOOSE v \in
        {IF ~inv.ok THEN inv ELSE Recip(FAdd(One, inv.v)) :
            inv \in {IF FIsZero(S) THEN Raises("ZeroDivisionError")
                     ELSE Recip(FDiv(t, S))}} : TRUE

\* max(1, (math.log(x + 1) / math.log(2)) ** -1)
f_term(x) ==
    CHOOSE v \in
        {IF ~inv.ok THEN inv ELSE Returns(FMaxOf(One, inv.v)) :
            inv \in {Recip(Log2OnePlus(x))}} : TRUE

w15(grade) ==
    IF grade = "Again" THEN FZero
    ELSE IF grade \in {"Good", "Easy"} THEN One
    ELSE Half

w16(grade) == IF grade \in {"Hard", "Good"} THEN One ELSE FromInt(3)

\* f_D = 11 - D ; for D >= 11 the product is <= 0 and max(1, SInc) is 1.
stability_increase(S, D, R, grade) ==
    CHOOSE v \in
        {IF ~f_S.ok THEN f_S
         ELSE IF ~f_R.ok THEN f_R
         ELSE IF 11 * DUnit - D <= 0 THEN Returns(One)
         ELSE Returns(FMaxOf(One,
                  FMul(FMul(FMul(FMul(FMul(FromFixed(11 * DUnit - D), f_S.v), f_R.v),
                                 w1), w15(grade)), w16(grade)))) :
            f_S \in {f_term(S)}, f_R \in {f_term(R)}} : TRUE

\* The sign of double(1 / double(D)) - 1 / D for D = n * 10^-6 in [1, 100]: on
\* which side of the exact quotient the double D ** -1.0 lies, taken as the
\* double nearest to 1 / double(D).  With n * 2^s = (M + sigma / 10^6) * 10^6
\* and 10^6 * 2^t = (A + rho / n) * n, M and A of 53 bits, double(D) is off by
\* tau = -sigma (rounded down) or 10^6 - sigma (rounded up) millionths of its
\* last bit, which moves 1 / D by tau * 10^6 * 2^(t - s) / n^2 of its last bit.
RecipSign(n) ==
    CHOOSE v \in
        {IF d.r = 0
         THEN IF i.r = 0 THEN 0 ELSE IF RoundsUp(i, n) THEN 1 ELSE -1
         ELSE CHOOSE w \in
                  {IF BigCmp(BigAdd(BigMul(BigFromInt(2 * i.r), BigFromInt(n)),
                                    IF tau < 0 THEN BigMul(BigFromInt(-tau), k) ELSE <<0>>),
                             BigAdd(BigMul(BigFromInt(n), BigFromInt(n)),
                                    IF tau > 0 THEN BigMul(BigFromInt(tau), k) ELSE <<0>>)) >= 0
                   THEN 1
                   ELSE IF i.r = 0
                           /\ (tau < 0 \/ BigCmp(BigMul(BigFromInt(n), BigFromInt(n)),
                                                 BigMul(BigFromInt(tau), k)) >= 0)
                   THEN 0
                   ELSE -1 :
                      tau \in {IF RoundsUp(d, 10^6) THEN 10^6 - d.r ELSE -d.r},
                      k \in {BigMul(BigFromInt(2^(i.s - d.s + 1)), BigFromInt(10^6))}} : TRUE :
            d \in {Bits53(n, 10^6)}, i \in {Bits53(10^6, n)}} : TRUE

\* u * 2^-1074 times D ** -1.0, in counts of 2^-1074: u / D rounded to nearest,
\* an exact half decided by the side D ** -1.0 lies on.
RecipTimes(u, n) ==
    CHOOSE v \in
        {Nearest(LongDiv(u % n, n, 6, u \div n), f, IF f = 0 THEN RecipSign(n) ELSE 0) :
            f \in {Sign(2 * LongRem(u % n, n, 6) - n)}} : TRUE

\* current_S * f_D with f_D = D ** -1.0 : for a stability below TinyLimit the
\* product is formed on the count of 2^-1074 and the difficulty itself, as the
\* 8 digits of f_D do not tell on which side of a half the double product lies.
LapseProduct(current_S, D, f_D) ==
    IF current_S.m # 0 /\ FLt(current_S, TinyLimit) /\ D >= DUnit /\ D <= 100 * DUnit
    THEN FromUnits(RecipTimes(Units(current_S), D))
    ELSE FMul(current_S, f_D)

\* D > 0 (a difficulty) ; D ** -w12 with w12 = 1.
update_stability(current_S, D, R, grade) ==
    IF grade = "Again"
    THEN CHOOSE v \in
             {IF ~f_D.ok THEN f_D
              ELSE Returns(FMinOf(current_S,
                                  FMul(LapseProduct(current_S, D, f_D.v), w11))) :
                 f_D \in {Recip(FromFixed(D))}} : TRUE
    ELSE CHOOSE v \in
             {IF inc.ok THEN Returns(FMul(current_S, inc.v)) ELSE inc :
                 inc \in {stability_increase(current_S, D, R, grade)}} : TRUE

difficulty_change(grade) ==
    CASE grade = "Again" -> DUnit
      [] grade = "Hard"  -> DUnit \div 5
      [] grade = "Good"  -> 0
      [] grade = "Easy"  -> -(DUnit \div 5)
      [] OTHER           -> 0

\* n / d rounded to the nearest integer (d > 0).
RoundDiv(n, d) == (2 * n + d) \div (2 * d)

ClampBeforeRevert(current_D, grade, R) ==
    LET D_new == IF current_D + difficulty_change(grade) > 10 * DUnit THEN 10 * DUnit
                 ELSE IF current_D + difficulty_change(grade) < DUnit THEN DUnit
                 ELSE current_D + difficulty_change(grade)
    IN  RoundDiv(D_new * 9 + w4, 10)

UpdateDifficultyNoClamp(current_D, grade, R) ==
    RoundDiv((current_D + difficulty_change(grade)) * 9 + w4, 10)

update_difficulty(current_D, grade, R) ==
    LET D_change == difficulty_change(grade)
        D_new    == RoundDiv((current_D + D_change) * 9 + w4, 10)
    IN  IF D_new > 10 * DUnit THEN 10 * DUnit
        ELSE IF D_new < DUnit THEN DUnit
        ELSE D_new

\* ------------------------------------------------------------------------
\* datetime and timedelta: [d |-> days, s |-> seconds, us |-> microseconds]
\* ------------------------------------------------------------------------
DaySeconds == 86400
Million == 10^6

\* The date of the first start of the program, date(2026, 1, 1).toordinal(), and
\* datetime.max.toordinal(); a datetime of day d is the date StartOrdinal + d.
StartOrdinal == 739617
MaxOrdinal == 3652059

\* days, seconds and microseconds brought into range, as timedelta does.
T(d, s, us) ==
    LET s2 == s + us \div Million
    IN  [d |-> d + s2 \div DaySeconds, s |-> s2 % DaySeconds, us |-> us % Million]

TLt(a, b) ==
    \/ a.d < b.d
    \/ (a.d = b.d /\ a.s < b.s)
    \/ (a.d = b.d /\ a.s = b.s /\ a.us < b.us)

TLe(a, b) == a = b \/ TLt(a, b)

TAdd(a, b) == T(a.d + b.d, a.s + b.s, a.us + b.us)

\* a - b for a >= b.
TSub(a, b) == T(a.d - b.d - 1, a.s - b.s + DaySeconds - 1, a.us - b.us + Million)

\* datetime + timedelta: OverflowError past datetime.max (the year 9999).
datetime_add(t, td) ==
    CHOOSE v \in
        {IF StartOrdinal + r.d > MaxOrdinal THEN Raises("OverflowError") ELSE Returns(r) :
            r \in {TAdd(t, td)}} : TRUE

\* timedelta(minutes=n)
timedelta_minutes(n) == T(n \div 1440, (n % 1440) * 60, 0)

\* timedelta.total_seconds() / (24 * 3600)
total_days(td) ==
    CHOOSE v \in
        {FDiv(FAdd(FAdd(FMul(FromInt(x.d), FromInt(DaySeconds)), FromInt(x.s)),
                   Norm(x.us, -6)),
              FromInt(DaySeconds)) : x \in {td}} : TRUE

\* M * 864 as hi * 10^4 + lo with 0 <= lo < 10^4 (M < 10^8) ; a day is
\* 864 * 10^8 microseconds.
Mul864(M) ==
    [hi |-> (M \div 10^4) * 864 + ((M % 10^4) * 864) \div 10^4,
     lo |-> ((M % 10^4) * 864) % 10^4]

\* The microseconds P.hi * 10^4 + P.lo of S.m * 864, divided by 10^j and rounded,
\* a half going to the even number (1 <= j <= 4).
MicrosShort(P, j) ==
    LET ql == (P.hi % Pow10(j)) * Pow10(4 - j) + P.lo \div Pow10(j)
        r  == P.lo % Pow10(j)
        up == IF 2 * r > Pow10(j) \/ (2 * r = Pow10(j) /\ ql % 2 = 1) THEN 1 ELSE 0
    IN  T(0, (P.hi \div Pow10(j)) \div 100, ((P.hi \div Pow10(j)) % 100) * 10^4 + ql + up)

\* The same divided by 10^4 * c, for c = 10, ..., 10^7.
MicrosTiny(P, c) ==
    LET d  == c - 2 * (P.hi % c)
        up == IF d < 0 \/ (d = 0 /\ (P.lo > 0 \/ (P.hi \div c) % 2 = 1)) THEN 1 ELSE 0
    IN  T(0, 0, P.hi \div c + up)

\* timedelta(days=S): the nearest whole number of microseconds, a half going to
\* the even one; OverflowError for inf and above 999999999 days.
timedelta_days(S) ==
    IF S.m = 0 THEN Returns(T(0, 0, 0))
    ELSE IF S.e >= 2 THEN Raises("OverflowError")
    ELSE IF S.e >= 0 THEN Returns(T(S.m * Pow10(S.e), 0, 0))
    ELSE IF S.e >= -8
    THEN CHOOSE v \in
             {Returns(T(S.m \div Pow10(-S.e), P.hi \div 100, (P.hi % 100) * 10^4 + P.lo)) :
                 P \in {Mul864((S.m % Pow10(-S.e)) * Pow10(8 + S.e))}} : TRUE
    ELSE IF S.e >= -12
    THEN CHOOSE v \in {Returns(MicrosShort(P, -S.e - 8)) : P \in {Mul864(S.m)}} : TRUE
    ELSE IF S.e >= -19
    THEN CHOOSE v \in {Returns(MicrosTiny(P, Pow10(-S.e - 12))) : P \in {Mul864(S.m)}} : TRUE
    ELSE Returns(T(0, 0, 0))

\* ------------------------------------------------------------------------
\* class PhysicsQuestion, class PhysicsFlashcardStudyApp
\* ------------------------------------------------------------------------
category_map == <<"kinematics", "dynamics", "energy", "circular_motion">>

SeedStability == F(MantMin, -11)
SeedDifficulty == 5 * DUnit

\* PhysicsQuestion.__init__: lines 58 and 59 read the clock one after the other,
\* t58 for last_reviewed and t59 for next_review.
PhysicsQuestion(question_type, t58, t59) ==
    [question_type |-> question_type,
     stability     |-> SeedStability,
     difficulty    |-> SeedDifficulty,
     last_reviewed |-> t58,
     next_review   |-> t59]

VARIABLES
    questions,       \* self.questions
    save_file,       \* the records of physics_flashcard_data.json
    now,             \* the clock, datetime.now()
    start_time,      \* self.start_time
    study_duration,  \* self.study_duration, in minutes
    pc,              \* "loop", "asked", "done", "crashed"; "fn" in FnSpec
    current_time,    \* current_time of the running loop iteration
    sel,             \* index of question_to_review in self.questions, 0 if none
    event,           \* what the last step of the loop did
    prev,            \* question_to_review as it was before the last review
    call,            \* the last call of the memory model: arguments and result
    fn,              \* FnSpec: the arguments S and D of the calls
    steps,           \* answers given so far
    sessions         \* sessions started so far

vars == <<questions, save_file, now, start_time, study_duration, pc, current_time,
          sel, event, prev, call, fn, steps, sessions>>

\* Bounds of the model.
MaxSteps == 3
MaxSessions == 2

NoCall == [kind |-> "none"]
NoQuestion == [question_type |-> "none"]
NoFn == [S |-> FZero, D |-> 0]

\* The categories chosen at the prompt, in the order typed.
CategoryLists ==
    {<<category_map[1]>>, <<category_map[2], category_map[1]>>}

\* Study durations in minutes: 0.1 day and 2 days.
Durations == {144, 2880}
\* Clock advance while the user answers: 0.2 day.
Deltas == {T(0, 17280, 0)}
\* Time between two runs of the program.
Gaps == {T(20, 0, 0)}
\* Clock advance, in microseconds, from one reading that __init__ stores to the
\* next one it stores: none (both reads fall in one tick of the clock) or one
\* microsecond.
Ticks == {0, 1}
GradeInputs == Grades \cup {"Other"}

\* load_previous_data: the records of the save file, [] when there is none.
load_previous_data(f) == f

\* next((q for q in existing_data if q['question_type'] == category), None)
RECURSIVE existing_question(_, _)
existing_question(existing_data, category) ==
    IF existing_data = <<>> THEN NoQuestion
    ELSE IF Head(existing_data).question_type = category THEN Head(existing_data)
    ELSE existing_question(Tail(existing_data), category)

\* datetime.now() read again: the same instant, or a later one.
Later(t, tick) == TAdd(t, T(0, 0, tick))

\* The categories that get a new question: those without a record in the save
\* file.
RECURSIVE NewCategories(_, _)
NewCategories(categories, existing_data) ==
    IF categories = <<>> THEN <<>>
    ELSE (IF existing_question(existing_data, Head(categories)) = NoQuestion
          THEN <<Head(categories)>> ELSE <<>>)
         \o NewCategories(Tail(categories), existing_data)

\* The clock advances of one __init__: two per new question, the advance up to
\* the read of line 58 and the advance from there to the read of line 180.
Readings(categories, existing_data) ==
    [1..2 * Len(NewCategories(categories, existing_data)) -> Ticks]

\* PhysicsFlashcardStudyApp.__init__, lines 166-182: self.questions and the
\* last reading of the clock that was stored. t is the reading stored before
\* (start_time at first). Each category constructs a PhysicsQuestion, which
\* reads the clock for last_reviewed (line 58) and for next_review (line 59).
\* A question of the save file takes both timestamps from its record (lines
\* 175-176), so neither reading is stored. A new question has next_review
\* read again at line 180, so the reading of line 59 is not stored either.
\* A reading that is not stored takes no advance of its own: the clock's
\* advance is counted from one stored reading to the next.
RECURSIVE Construct(_, _, _, _)
Construct(categories, existing_data, t, ticks) ==
    IF categories = <<>> THEN [questions |-> <<>>, now |-> t]
    ELSE CHOOSE v \in
        {IF e # NoQuestion
         THEN CHOOSE w \in
                  {[questions |-> <<[PhysicsQuestion(Head(categories), t, t) EXCEPT
                                        !.stability = e.stability,
                                        !.difficulty = e.difficulty,
                                        !.last_reviewed = e.last_reviewed,
                                        !.next_review = e.next_review]>>
                                  \o rest.questions,
                    now |-> rest.now] :
                      rest \in {Construct(Tail(categories), existing_data, t, ticks)}} : TRUE
         ELSE CHOOSE w \in
                  {[questions |-> <<[PhysicsQuestion(Head(categories), t58, t58) EXCEPT
                                        !.next_review = t180]>>
                                  \o rest.questions,
                    now |-> rest.now] :
                      t58 \in {Later(t, ticks[1])},
                      t180 \in {Later(Later(t, ticks[1]), ticks[2])},
                      rest \in {Construct(Tail(categories), existing_data,
                                          Later(Later(t, ticks[1]), ticks[2]),
                                          SubSeq(ticks, 3, Len(ticks)))}} : TRUE :
            e \in {existing_question(existing_data, Head(categories))}} : TRUE

InitQuestions(categories, existing_data, t, ticks) ==
    Construct(categories, existing_data, t, ticks).questions

\* The clock after __init__: the last reading stored.
InitClock(categories, existing_data, t, ticks) ==
    Construct(categories, existing_data, t, ticks).now

\* save_data: one record per question (JSON keeps floats and ISO timestamps).
save_data(qs) == qs

\* min_stability_days = max(0.1, study_duration.total_seconds() / (24 * 3600))
min_stability_days(minutes) ==
    FMaxOf(F(MantMin, -8), total_days(timedelta_minutes(minutes)))

\* all(q.stability >= min_stability_days for q in self.questions)
AnyMastered(qs, minutes) ==
    \E threshold \in {min_stability_days(minutes)} :
        \E i \in 1..Len(qs) : FLe(threshold, qs[i].stability)

AllMastered(qs, minutes) ==
    \E threshold \in {min_stability_days(minutes)} :
        \A i \in 1..Len(qs) : FLe(threshold, qs[i].stability)

\* [q for q in self.questions if q.next_review <= current_time], else all
RECURSIVE DueIndices(_, _, _)
DueIndices(qs, t, i) ==
    IF i > Len(qs) THEN <<>>
    ELSE (IF TLe(qs[i].next_review, t) THEN <<i>> ELSE <<>>) \o DueIndices(qs, t, i + 1)

reviewable_questions(qs, t) ==
    IF DueIndices(qs, t, 1) = <<>> THEN [i \in 1..Len(qs) |-> i] ELSE DueIndices(qs, t, 1)

\* min(iterable, key=...): the first element whose key is minimal
RECURSIVE PyMin(_, _, _)
PyMin(qs, idx, best) ==
    IF idx = <<>> THEN best
    ELSE PyMin(qs, Tail(idx),
               IF TLt(qs[Head(idx)].next_review, qs[best].next_review) THEN Head(idx) ELSE best)

RECURSIVE LastMin(_, _, _)
LastMin(qs, idx, best) ==
    IF idx = <<>> THEN best
    ELSE LastMin(qs, Tail(idx),
                 IF TLe(qs[Head(idx)].next_review, qs[best].next_review) THEN Head(idx) ELSE best)

QuestionToReviewLastMin(qs, t) ==
    LET r == reviewable_questions(qs, t) IN LastMin(qs, Tail(r), Head(r))

\* min(reviewable_questions, key=lambda q: q.next_review)
question_to_review(qs, t) ==
    LET r == reviewable_questions(qs, t) IN PyMin(qs, Tail(r), Head(r))

\* ------------------------------------------------------------------------
\* main(): PhysicsFlashcardStudyApp(...), run_study_session(), save_data()
\* ------------------------------------------------------------------------
\* __init__ of the first run: start_time is the first reading of the clock
\* (line 154), the questions take the readings that follow.
Init ==
    \E categories \in CategoryLists, minutes \in Durations :
      \E ticks \in Readings(categories, load_previous_data(<<>>)) :
        /\ questions = InitQuestions(categories, load_previous_data(<<>>), T(0, 0, 0), ticks)
        /\ save_file = <<>>
        /\ now = InitClock(categories, load_previous_data(<<>>), T(0, 0, 0), ticks)
        /\ start_time = T(0, 0, 0)
        /\ study_duration = minutes
        /\ pc = "loop"
        /\ current_time = T(0, 0, 0)
        /\ sel = 0
        /\ event = "started"
        /\ prev = NoQuestion
        /\ call = NoCall
        /\ fn = NoFn
        /\ steps = 0
        /\ sessions = 1

\* while datetime.now() - self.start_time < self.study_duration
InTime == TLt(TSub(now, start_time), timedelta_minutes(study_duration))

\* The loop condition fails: the session ends and main() saves.
Timeout ==
    /\ pc = "loop"
    /\ ~InTime
    /\ pc' = "done"
    /\ event' = "timeout"
    /\ save_file' = save_data(questions)
    /\ UNCHANGED <<questions, now, start_time, study_duration, current_time, sel,
                   prev, call, fn, steps, sessions>>

\* All questions have reached the desired stability: break, and main() saves.
Complete ==
    /\ pc = "loop"
    /\ InTime
    /\ AllMastered(questions, study_duration)
    /\ pc' = "done"
    /\ event' = "complete"
    /\ current_time' = now
    /\ save_file' = save_data(questions)
    /\ UNCHANGED <<questions, now, start_time, study_duration, sel, prev, call, fn,
                   steps, sessions>>

\* The question to review is chosen and shown.
Select ==
    /\ pc = "loop"
    /\ InTime
    /\ ~AllMastered(questions, study_duration)
    /\ current_time' = now
    /\ sel' = question_to_review(questions, now)
    /\ pc' = "asked"
    /\ event' = "selected"
    /\ UNCHANGED <<questions, save_file, now, start_time, study_duration, prev, call,
                   fn, steps, sessions>>

\* float(input(...)) raises ValueError: continue.
InvalidAnswer(delta) ==
    /\ pc = "asked"
    /\ steps < MaxSteps
    /\ now' = TAdd(now, delta)
    /\ pc' = "loop"
    /\ event' = "invalid_answer"
    /\ steps' = steps + 1
    /\ UNCHANGED <<questions, save_file, start_time, study_duration, current_time, sel,
                   prev, call, fn, sessions>>

\* datetime.now() + timedelta(days=question_to_review.stability) at clock
\* reading t; both steps can raise OverflowError.
next_review(t, stability) ==
    CHOOSE v \in
        {IF ~td.ok THEN td ELSE datetime_add(t, td.v) :
            td \in {timedelta_days(stability)}} : TRUE

\* An answer and a grade are read; lines 243-250 apply the grade.
Review(delta, grade) ==
    /\ pc = "asked"
    /\ steps < MaxSteps
    /\ now' = TAdd(now, delta)
    /\ prev' = questions[sel]
    /\ call' = [kind  |-> "review",
                S     |-> questions[sel].stability,
                D     |-> questions[sel].difficulty,
                R     |-> FromInt(Len(questions)),
                grade |-> grade,
                out   |-> update_stability(questions[sel].stability,
                                           questions[sel].difficulty,
                                           FromInt(Len(questions)), grade),
                Dout  |-> update_difficulty(questions[sel].difficulty, grade,
                                            FromInt(Len(questions)))]
    /\ IF ~call'.out.ok
       THEN \* update_stability raised: nothing was assigned
            /\ questions' = questions
            /\ pc' = "crashed"
            /\ event' = "raised"
       ELSE IF ~next_review(now', call'.out.v).ok
       THEN \* line 250 raised after stability and difficulty were assigned
            /\ questions' = [questions EXCEPT ![sel].stability = call'.out.v,
                                              ![sel].difficulty = call'.Dout]
            /\ pc' = "crashed"
            /\ event' = "raised"
       ELSE /\ questions' = [questions EXCEPT
                               ![sel].stability = call'.out.v,
                               ![sel].difficulty = call'.Dout,
                               ![sel].next_review =
                                   next_review(now', call'.out.v).v]
            /\ pc' = "loop"
            /\ event' = "reviewed"
    /\ steps' = steps + 1
    /\ UNCHANGED <<save_file, start_time, study_duration, current_time, sel, fn,
                   sessions>>

\* The program is run again: __init__ reads start_time, restores the questions
\* of the save file and constructs the others on the readings that follow.
Restart(categories, minutes, gap, ticks) ==
    /\ pc \in {"done", "crashed"}
    /\ sessions < MaxSessions
    /\ start_time' = TAdd(now, gap)
    /\ now' = InitClock(categories, load_previous_data(save_file), start_time', ticks)
    /\ current_time' = start_time'
    /\ study_duration' = minutes
    /\ questions' = InitQuestions(categories, load_previous_data(save_file), start_time',
                                  ticks)
    /\ pc' = "loop"
    /\ sel' = 0
    /\ event' = "started"
    /\ prev' = NoQuestion
    /\ call' = NoCall
    /\ sessions' = sessions + 1
    /\ UNCHANGED <<save_file, fn, steps>>

Answer ==
    \E delta \in Deltas :
        \/ InvalidAnswer(delta)
        \/ \E grade \in GradeInputs : Review(delta, grade)

Rerun ==
    \E categories \in CategoryLists, minutes \in Durations, gap \in Gaps :
        \E ticks \in Readings(categories, load_previous_data(save_file)) :
            Restart(categories, minutes, gap, ticks)

Next == Timeout \/ Complete \/ Select \/ Answer \/ Rerun

Spec == Init /\ [][Next]_vars

\* ------------------------------------------------------------------------
\* The methods of class FSRS called on enumerated arguments
\* ------------------------------------------------------------------------
\* Stabilities: the seed; 2^-53; 1.4999999 and 100.50000 times 2^-52, next to a
\* half count of 2^-52; 0.5; 1; 12.477273 (the seed graded Easy); 5244; 1e308.
InS ==
    {SeedStability, F(11102230, -23), F(33306689, -23), F(22315483, -21), Half, One,
     F(12477273, -6), F(52440000, -4),
     F(MantMin, 301)}
\* The memory states 322 and 15 consecutive lapses from the seed leave:
\* S = 5e-324, the smallest positive double, and S = 1.2430566e-17; and 5 and 3
\* times the smallest positive double at D = 10 and D = 1.2, where S / D is
\* half a count of 2^-1074.
Lapsed ==
    {[S |-> MinSubnormal, D |-> 10 * DUnit], [S |-> F(12430566, -24), D |-> 8970544],
     [S |-> F(24703282, -330), D |-> 10 * DUnit], [S |-> F(14821969, -330), D |-> 1200000]}
\* Difficulties, in and out of [1, 10]: -5, 0.5, 1, 2, 5, 9.5, 10, 12, 100.
InD ==
    {-5 * DUnit, DUnit \div 2, DUnit, 2 * DUnit, 5 * DUnit, 19 * (DUnit \div 2),
     10 * DUnit, 12 * DUnit, 100 * DUnit}
\* Retrievabilities 0, 0.25, 1, and len(self.questions) = 2, 4.
InR == {FZero, F(25000000, -8), One, Two, FromInt(4)}
\* Elapsed days 0, 1e-5, 1, 3.
InT == {FZero, F(MantMin, -12), One, FromInt(3)}

\* The arguments S and D of a call; each run makes one call.
FnInit ==
    /\ fn \in [S : InS, D : InD] \cup Lapsed
    /\ pc = "fn"
    /\ call = NoCall
    /\ steps = 0
    /\ questions = <<>>
    /\ save_file = <<>>
    /\ now = T(0, 0, 0)
    /\ start_time = T(0, 0, 0)
    /\ study_duration = 0
    /\ current_time = T(0, 0, 0)
    /\ sel = 0
    /\ event = "started"
    /\ prev = NoQuestion
    /\ sessions = 0

\* A method of FSRS reads and writes nothing but its arguments and its result.
FnUnchanged ==
    UNCHANGED <<questions, save_file, now, start_time, study_duration, pc, current_time,
                sel, event, prev, fn, steps, sessions>>

\* update_stability(S, D, R, grade) on a positive stability and a difficulty in
\* [1, 10]
FnUpdateStability(R, grade) ==
    /\ pc = "fn"
    /\ call = NoCall
    /\ ~FIsZero(fn.S)
    /\ fn.D >= DUnit
    /\ fn.D <= 10 * DUnit
    /\ call' = [kind |-> "update_stability", S |-> fn.S, D |-> fn.D, R |-> R,
                grade |-> grade, out |-> update_stability(fn.S, fn.D, R, grade)]
    /\ FnUnchanged

\* update_difficulty(D, grade, R) on any difficulty
FnUpdateDifficulty(R, grade) ==
    /\ pc = "fn"
    /\ call = NoCall
    /\ call' = [kind |-> "update_difficulty", D |-> fn.D, R |-> R, grade |-> grade,
                Dout |-> update_difficulty(fn.D, grade, R)]
    /\ FnUnchanged

\* calculate_retrievability(t, S) and calculate_retrievability(t2, S) at two
\* elapsed times t < t2 on a positive stability
FnRetrievability(t, t2) ==
    /\ pc = "fn"
    /\ call = NoCall
    /\ ~FIsZero(fn.S)
    /\ FLt(t, t2)
    /\ call' = [kind |-> "calculate_retrievability", S |-> fn.S, t |-> t, t2 |-> t2,
                out |-> calculate_retrievability(t, fn.S),
                out2 |-> calculate_retrievability(t2, fn.S)]
    /\ FnUnchanged

FnNext ==
    \/ \E R \in InR, grade \in GradeInputs : FnUpdateStability(R, grade)
    \/ \E R \in InR, grade \in GradeInputs : FnUpdateDifficulty(R, grade)
    \/ \E t \in InT, t2 \in InT : FnRetrievability(t, t2)

FnSpec == FnInit /\ [][FnNext]_vars

\* ------------------------------------------------------------------------
\* Properties
\* ------------------------------------------------------------------------
\* q.stability >= min_stability_days, the mastery threshold of the session
Mastered(q) == FLe(min_stability_days(study_duration), q.stability)

\* Position of a question's identifier (its category) in category_map.
IdKey(q) == CHOOSE k \in 1..Len(category_map) : category_map[k] = q.question_type

Due == {i \in 1..Len(questions) : TLe(questions[i].next_review, current_time)}

\* C1: update_stability called on a stability > 0 and a difficulty in [1, 10]
\* with a grade of {Again, Hard, Good, Easy} never returns a stability <= 0.
C1_StabilityPositive ==
    (call.kind = "update_stability" /\ call.grade \in Grades /\ call.out.ok)
        => ~FIsZero(call.out.v)

\* C2: for every S > 0, D in [1, 10], R and grade of {Again, Hard, Good, Easy},
\* update_stability returns a result, and the result is >= S for Hard, Good and
\* Easy, and <= S for Again.
C2_GradeDirection ==
    (call.kind = "update_stability" /\ call.grade \in Grades)
        => /\ call.out.ok
           /\ IF call.grade = "Again" THEN FLe(call.out.v, call.S)
              ELSE FLe(call.S, call.out.v)

\* C3: update_difficulty returns a value in [1, 10] for any difficulty and any
\* grade.
C3_DifficultyRange ==
    call.kind = "update_difficulty"
        => /\ call.Dout >= DUnit
           /\ call.Dout <= 10 * DUnit

\* A difficulty of 100 graded Hard is cut down to 10.
C3_Witness ==
    /\ call.kind = "update_difficulty"
    /\ call.D = 100 * DUnit
    /\ call.grade = "Hard"
    /\ call.Dout = 10 * DUnit

\* C4: for S > 0 and t >= 0 (t = 0 included) retrievability(t, S) is returned and
\* lies in (0, 1], and it is strictly decreasing in t.
C4_Retrievability ==
    call.kind = "calculate_retrievability"
        => /\ call.out.ok
           /\ call.out2.ok
           /\ ~FIsZero(call.out.v)
           /\ FLe(call.out.v, One)
           /\ ~FIsZero(call.out2.v)
           /\ FLe(call.out2.v, One)
           /\ FLt(call.out2.v, call.out.v)

\* C5 as stated: the candidates are the due questions or, when none is due, the
\* questions not yet mastered; the selected one has the earliest next_review, and
\* among equal next_review the one with the least identifier.
C5_Original ==
    pc = "asked"
        => LET cand == IF Due # {} THEN Due
                       ELSE {i \in 1..Len(questions) : ~Mastered(questions[i])}
           IN  /\ sel \in cand
               /\ \A j \in cand :
                     /\ TLe(questions[sel].next_review, questions[j].next_review)
                     /\ questions[j].next_review = questions[sel].next_review
                            => IdKey(questions[sel]) <= IdKey(questions[j])

\* C5 as amended: the candidates are the due questions or, when none is due, all
\* questions; the selected one has the earliest next_review, and among equal
\* next_review the one stored first.
C5_Selection ==
    pc = "asked"
        => LET cand == IF Due # {} THEN Due ELSE 1..Len(questions)
           IN  /\ sel \in cand
               /\ \A j \in cand :
                     /\ TLe(questions[sel].next_review, questions[j].next_review)
                     /\ questions[j].next_review = questions[sel].next_review
                            => sel <= j

\* Two due questions with equal next_review, stored against the identifier order.
C5_Witness ==
    /\ pc = "asked"
    /\ Len(questions) = 2
    /\ Due = {1, 2}
    /\ questions[1].next_review = questions[2].next_review
    /\ IdKey(questions[2]) < IdKey(questions[1])
    /\ sel = 1

\* C6: after a completed review at time now the question's last_reviewed is now
\* and its next_review is now plus its new stability in days; and every question
\* has next_review >= last_reviewed.
C6_ReviewTimestamps ==
    /\ event = "reviewed"
          => /\ questions[sel].last_reviewed = now
             /\ questions[sel].next_review =
                    next_review(now, questions[sel].stability).v
    /\ \A i \in 1..Len(questions) :
          TLe(questions[i].last_reviewed, questions[i].next_review)

\* C7: a review given a grade outside {Again, Hard, Good, Easy} ends with an
\* InvalidGrade error and leaves the question as it was.
C7_InvalidGradeRejected ==
    (event \in {"reviewed", "raised", "invalid_grade"} /\ call.grade \notin Grades)
        => /\ event = "invalid_grade"
           /\ questions[sel] = prev

\* C8 as stated: a question whose stability is >= the mastery threshold is never
\* selected, and a review never takes a mastered question below the threshold.
C8_Original ==
    /\ pc = "asked" => ~Mastered(questions[sel])
    /\ (event = "reviewed" /\ Mastered(prev)) => Mastered(questions[sel])

\* C8 as amended: a question is selected only while some question is below the
\* threshold; the session is complete exactly with every question at or above
\* it; and a review graded other than Again leaves a mastered question mastered.
C8_SessionMastery ==
    /\ pc = "asked" => \E i \in 1..Len(questions) : ~Mastered(questions[i])
    /\ event = "complete"
          => /\ pc = "done"
             /\ \A i \in 1..Len(questions) : Mastered(questions[i])
    /\ (event = "reviewed" /\ Mastered(prev) /\ call.grade # "Again")
          => Mastered(questions[sel])

\* In a first session, on new questions, a mastered question is selected while
\* the other one is below the threshold.
C8_Witness ==
    /\ sessions = 1
    /\ pc = "asked"
    /\ Mastered(questions[sel])

\* C9: update_difficulty adds the grade's delta (Again +1.0, Hard +0.2, Good 0,
\* Easy -0.2), then takes 0.9 * (D + delta) + 0.1 * w4 with w4 = 1.0, then clamps
\* to [1, 10]; D = 5.0 graded Hard gives 4.78.
C9_DifficultyFormula ==
    (call.kind = "update_difficulty" /\ call.grade \in Grades)
        => LET delta == CASE call.grade = "Again" -> 10^6
                          [] call.grade = "Hard"  -> 2 * 10^5
                          [] call.grade = "Good"  -> 0
                          [] call.grade = "Easy"  -> -2 * 10^5
               v == (2 * (9 * (call.D + delta) + 10^6) + 10) \div 20
           IN  /\ call.Dout = IF v > 10^7 THEN 10^7 ELSE IF v < 10^6 THEN 10^6 ELSE v
               /\ (call.D = 5 * 10^6 /\ call.grade = "Hard") => call.Dout = 478 * 10^4

\* D = 5.0 graded Hard has given 4.78.
C9_Witness ==
    /\ call.kind = "update_difficulty"
    /\ call.D = 5 * DUnit
    /\ call.grade = "Hard"
    /\ call.Dout = 478 * 10^4

\* C10: the R passed to update_stability by a review is the retrievability at
\* the days elapsed since the question's last_reviewed and its stability.
C10_RetrievabilityPassed ==
    event = "reviewed"
        => LET r == calculate_retrievability(total_days(TSub(now, prev.last_reviewed)),
                                             prev.stability)
           IN  r.ok /\ call.R = r.v

====
